---- MODULE Spec2Model ----
(***************************************************************************)
(* Model of the real-time notification fan-out subsystem:                  *)
(*   Backend/services/notifications/websocket_manager.py (WebSocketManager)*)
(*   Backend/routes/websocket.py (the /ws endpoint and the notify action)  *)
(*                                                                         *)
(* The program runs on one asyncio event loop: code between two awaits     *)
(* that can suspend (a transport accept/send/close/receive) is one atomic  *)
(* action.  The manager's asyncio.Lock is never held across an await, so   *)
(* acquiring it never suspends.                                            *)
(*                                                                         *)
(* A second part models the analysis engine:                               *)
(*   Backend/core/engine/analyzer.py (SecurityAnalyzer)                    *)
(*   Backend/core/ml/factory.py (ModelFactory)                             *)
(***************************************************************************)
EXTENDS Integers, Sequences, FiniteSets, TLC

\* ---------------------------------------------------------------- bounds
MaxFrames == 1       \* control frames a client sends on one connection
MaxSends == 1        \* calls issued by the producer (notify action)
MaxAnalyses == 2     \* calls made on the analyzer by one caller

\* ------------------------------------------------------------ input sets
ClientIds == {"c1", "c2"}
Users == {"u1"}
Scans == {"s1"}
Groups == {"public", "alerts"}
Sockets == {1, 2}          \* the websockets (one endpoint task each), opened in this order
Producers == {"p1"}
None == "none"
BadToken == "bad"
Tokens == {None, BadToken} \cup Users
FrameTypes == {"ping", "subscribe", "unsubscribe", "malformed"}
FrameGroupLists == {<<g>> : g \in Groups} \cup {<<"alerts", "public">>}
DefaultGroups == {"public"}
WS_1000_NORMAL_CLOSURE == 1000
WS_1008_POLICY_VIOLATION == 1008
NotificationType ==
  {"connected", "disconnected", "error", "ping", "pong", "scan_started",
   "scan_progress", "scan_completed", "scan_failed", "threat_detected",
   "threat_mitigated", "user_joined", "user_left", "system_alert",
   "maintenance_notice"}

VARIABLES
  active_connections,  \* dict client_id -> client, as the sequence of its items in insertion order
  user_connections,    \* dict user_id -> set of client_id
  scan_connections,    \* dict scan_id -> set of client_id
  group_connections,   \* dict group -> set of client_id
  client,              \* the WebSocketClient objects, one per websocket
  closed,              \* per websocket: 0 while open, else the close code sent by the server
  ep,                  \* per websocket: the state of its endpoint task
  prod,                \* per producer: the state of its dispatch call
  lastWrite,           \* the transport write started by the last step (history)
  gone,                \* ids unregistered and not registered again since (history)
  lastFrame,           \* the frame a receive loop handled in the last step (history)
  lockHeld,            \* the last step made its changes inside `async with self.lock` (history)
  factory_models,      \* ModelFactory._models: the names of the cached models
  initialized,         \* SecurityAnalyzer.initialized
  analysis,            \* per caller: the state of its call on the analyzer
  channel_connections, \* channel manager: the keys of active_connections (client ids)
  channels,            \* channel manager: dict channel -> list of client ids
  channel_call,        \* channel manager: the state of the broadcast call
  feed_connections,    \* threat feed: the entries of active_connections, deleted ones included
  feed_ep,             \* threat feed: per websocket, the state of its endpoint task
  feed_call            \* threat feed: the state of the broadcast call

vars == <<active_connections, user_connections, scan_connections,
          group_connections, client, closed, ep, prod, lastWrite, gone,
          lastFrame, lockHeld, factory_models, initialized, analysis,
          channel_connections, channels, channel_call,
          feed_connections, feed_ep, feed_call>>

\* the state of the channel-based manager and of its broadcast call
pubsub == <<channel_connections, channels, channel_call>>

\* the state of the threat feed, of its endpoint tasks and of its broadcast call
feed == <<feed_connections, feed_ep, feed_call>>

\* the state of the analyzer and of the model factory
engine == <<factory_models, initialized, analysis>>

\* the state of the websocket manager and of its tasks
fanout == <<active_connections, user_connections, scan_connections,
            group_connections, client, closed, ep, prod, lastWrite, gone,
            lastFrame, lockHeld>>

registry == <<active_connections, user_connections, scan_connections,
              group_connections>>

\* --------------------------------------------------------- dict helpers
EmptyDict == [k \in {} |-> {}]
Keys(ac) == {ac[i].id : i \in 1..Len(ac)}
KeyList(ac) == [i \in 1..Len(ac) |-> ac[i].id]
Values(ac) == {ac[i].ws : i \in 1..Len(ac)}

\* dict.get(client_id): the stored client, 0 for None
Get(ac, cid) ==
  IF cid \in Keys(ac) THEN ac[CHOOSE i \in 1..Len(ac) : ac[i].id = cid].ws ELSE 0

\* mutant: the client is not stored
DictSet_skip(ac, cid, ws) == ac
\* active_connections[client_id] = client : an existing key keeps its position
DictSet(ac, cid, ws) ==
  IF cid \in Keys(ac)
  THEN [i \in 1..Len(ac) |-> IF ac[i].id = cid THEN [id |-> cid, ws |-> ws] ELSE ac[i]]
  ELSE Append(ac, [id |-> cid, ws |-> ws])

\* mutant: the client is left in active_connections
DictPop_keep(ac, cid) == ac
\* active_connections.pop(client_id, None)
DictPop(ac, cid) == SelectSeq(ac, LAMBDA e : e.id # cid)

\* if key not in index: index[key] = set();  index[key].add(client_id)
IndexAdd(d, key, cid) ==
  [k \in DOMAIN d \cup {key} |->
     IF k = key THEN (IF key \in DOMAIN d THEN d[key] ELSE {}) \cup {cid} ELSE d[k]]

\* mutant: an emptied set is left under its key
IndexDiscard_keep(d, key, cid) ==
  IF key \notin DOMAIN d THEN d ELSE [d EXCEPT ![key] = @ \ {cid}]
\* if key in index: index[key].discard(client_id); if not index[key]: del index[key]
IndexDiscard(d, key, cid) ==
  IF key \notin DOMAIN d THEN d
  ELSE IF d[key] \ {cid} = {} THEN [k \in DOMAIN d \ {key} |-> d[k]]
  ELSE [d EXCEPT ![key] = @ \ {cid}]

\* index.get(key, set())
IndexGet(d, key) == IF key \in DOMAIN d THEN d[key] ELSE {}

RECURSIVE AddGroups(_, _, _)
\* for group in client.groups: register client_id under group
AddGroups(d, gs, cid) ==
  IF gs = {} THEN d
  ELSE LET g == CHOOSE x \in gs : TRUE IN AddGroups(IndexAdd(d, g, cid), gs \ {g}, cid)

RECURSIVE DiscardGroups(_, _, _)
\* for group in client.groups: discard client_id from group
DiscardGroups(d, gs, cid) ==
  IF gs = {} THEN d
  ELSE LET g == CHOOSE x \in gs : TRUE IN DiscardGroups(IndexDiscard(d, g, cid), gs \ {g}, cid)

\* all orders in which list(a_set) can enumerate a set
Perms(S) ==
  {f \in [1..Cardinality(S) -> S] : \A i, j \in 1..Cardinality(S) : i # j => f[i] # f[j]}

\* ------------------------------------------------------- values / records
NoClient == [client_id |-> None, user_id |-> None, scan_id |-> None, groups |-> {}]
\* A write is attributed (`by`) to the websocket of the endpoint task that
\* started it, or to 0 when a producer started it
NoWrite == [to |-> 0, kind |-> None, by |-> -1]
NoFrame == [on |-> 0, type |-> None, groups |-> <<>>]
NoCall == [op |-> None, kind |-> None, ids |-> <<>>, idx |-> 1,
           exclC |-> {}, exclU |-> {}, results |-> <<>>, left |-> {}]

NewCall(op, kind, ids, exclC) ==
  [op |-> op, kind |-> kind, ids |-> ids, idx |-> 1,
   exclC |-> exclC, exclU |-> {}, results |-> <<>>, left |-> {}]

\* mutant: a token that fails verification is taken for a user's
verify_jwt_token_lax(token) == IF token \in Users THEN token ELSE "u1"
\* verify_jwt_token: the subject of a valid token, "invalid" when jwt.decode raises
verify_jwt_token(token) == IF token \in Users THEN token ELSE "invalid"

\* Outcome of websocket.send_json on the transport: it raises once the server
\* has sent a close message, and may raise on any write error
Transport(code, ok) == code = 0 /\ ok

\* mutant: the failure is swallowed and success reported
send_json_swallow(code, ok) == TRUE
\* WebSocketClient.send_json: True when the write returned, False when it raised
send_json(code, ok) == Transport(code, ok)

\* Kinds the server itself uses, or a caller of the notify action submits,
\* that are not members of NotificationType
CustomKinds == {"subscription_updated", "echo", "custom"}

\* Notification(type=kind): pydantic rejects a kind outside the enumeration
NotificationValid(kind) == kind \in NotificationType

\* ------------------------------------------------------------ dispatching
\* mutant: the exclusion sets are ignored
Skips_noexclude(c, id, ac, cl) == Get(ac, id) = 0
\* broadcast: the `continue` conditions of the loop body
Skips(c, id, ac, cl) ==
  \/ Get(ac, id) = 0
  \/ id \in c.exclC
  \/ cl[Get(ac, id)].user_id # None /\ cl[Get(ac, id)].user_id \in c.exclU

RECURSIVE Walk(_, _, _)
\* Run the loop of a dispatch call up to its next transport write: broadcast
\* skips ids silently, send_to_client returns False for an id that is absent
Walk(c, ac, cl) ==
  IF c.idx > Len(c.ids) THEN c
  ELSE LET id == c.ids[c.idx] IN
    IF c.op = "broadcast"
    THEN IF Skips(c, id, ac, cl) THEN Walk([c EXCEPT !.idx = @ + 1], ac, cl) ELSE c
    ELSE IF Get(ac, id) = 0
         THEN Walk([c EXCEPT !.idx = @ + 1,
                             !.results = Append(@, [id |-> id, ok |-> FALSE,
                                                    delivered |-> FALSE, ws |-> 0])],
                   ac, cl)
         ELSE c

\* One scheduling step of a dispatch call: finish, or start the next write
RunCall(c, ac, cl, ok, by) ==
  LET w == Walk(c, ac, cl) IN
  IF w.idx > Len(w.ids) THEN [call |-> w, write |-> NoWrite, fin |-> TRUE]
  ELSE LET id == w.ids[w.idx]
           ws == Get(ac, id)
           r == send_json(closed[ws], ok)
           d == Transport(closed[ws], ok)
       IN [call |-> [w EXCEPT !.idx = @ + 1,
                              !.results = Append(@, [id |-> id, ok |-> r,
                                                     delivered |-> d, ws |-> ws])],
           write |-> [to |-> ws, kind |-> c.kind, by |-> by],
           fin |-> FALSE]

\* history: ids unregistered while a call is running
MarkLeft(c, cid) == IF c.op = None THEN c ELSE [c EXCEPT !.left = @ \cup {cid}]

\* ------------------------------------------------------- analysis engine
Callers == {"a1"}
MODEL_REGISTRY == {"network_ids", "apk_analyzer", "phishing_detector", "llm_abuse_detector"}
\* traffic_data: a populated dict, an empty dict, None
Inputs == {"traffic", "empty", "none"}
\* risk scores in tenths
Scores == 0..10

NoResult == [error |-> FALSE, threat_level |-> None, risk_score |-> -1]
\* the dict returned by the `except Exception` handler of analyze_network_traffic
ErrorResult == [error |-> TRUE, threat_level |-> "unknown", risk_score |-> 0]
NoAnalysis == [pc |-> "idle", op |-> None, result |-> NoResult, failed |-> None,
               skipped |-> {}, n |-> 0]

\* ModelFactory.get_all_models: every registered model that is not cached is
\* loaded; a model whose loading raises is logged and skipped
get_all_models(cache, fails) == cache \cup (MODEL_REGISTRY \ fails)

\* SecurityAnalyzer.initialize: if not initialized, self.models =
\* await get_all_models() (the factory's own dict) and initialized = True;
\* get_all_models raises nothing, so the except branch is never taken
initialize(init, cache, fails) ==
  IF init THEN [initialized |-> TRUE, models |-> cache, raised |-> FALSE]
  ELSE [initialized |-> TRUE, models |-> get_all_models(cache, fails), raised |-> FALSE]

\* NetworkIDSModel.predict: the score computed from the features is clamped
\* to [0, 1]; with no features it is the random term alone, at most 0.1
PredictScores(input) == IF input = "empty" THEN {0, 1} ELSE Scores

\* the threat level predict derives from the risk score
ThreatLevel(score) ==
  IF score > 7 THEN "critical"
  ELSE IF score > 4 THEN "high"
  ELSE IF score > 2 THEN "medium"
  ELSE "low"

\* mutant: the handler lets the exception out of the call
analyze_except_raise(c, stage) ==
  [c EXCEPT !.pc = "raised", !.result = NoResult, !.failed = stage]
\* analyze_network_traffic, `except Exception`: log and return the error dict
analyze_except(c, stage) ==
  [c EXCEPT !.pc = "returned", !.result = ErrorResult, !.failed = stage]

\* ------------------------------------------- channel-based manager
\* (services/notifications/websocket.py)
ChannelClients == {"k1", "k2"}
ChannelNames == {"threats", "scan_s1"}

\* list.remove(x) on a list without duplicates
ListRemove(l, x) == SelectSeq(l, LAMBDA e : e # x)
ListItems(l) == {l[i] : i \in 1..Len(l)}

\* WebSocketManager.disconnect: nothing for an unknown client; else drop the
\* connection and remove the client from every channel's list
channel_disconnect(conns, chs, client_id) ==
  IF client_id \in conns
  THEN [connections |-> conns \ {client_id},
        channels |-> [ch \in DOMAIN chs |-> ListRemove(chs[ch], client_id)]]
  ELSE [connections |-> conns, channels |-> chs]

\* WebSocketManager.subscribe: create the channel's list, append once
channel_subscribe(chs, client_id, channel) ==
  LET made == [ch \in DOMAIN chs \cup {channel} |->
                 IF ch \in DOMAIN chs THEN chs[ch] ELSE <<>>]
  IN IF client_id \in ListItems(made[channel]) THEN made
     ELSE [made EXCEPT ![channel] = Append(@, client_id)]

\* WebSocketManager.unsubscribe
channel_unsubscribe(chs, client_id, channel) ==
  IF channel \in DOMAIN chs /\ client_id \in ListItems(chs[channel])
  THEN [chs EXCEPT ![channel] = ListRemove(@, client_id)]
  ELSE chs

\* The broadcast call: i is the position of the list iterator (the next index,
\* from 1), cur the client whose send_json is awaited; attempted, snap (the
\* channel's list when the call started) and stable (the clients of snap that
\* were connected then and that nothing but this call has touched since) are
\* history
NoChannelCall ==
  [pc |-> "idle", channel |-> None, i |-> 1, cur |-> None, attempted |-> {},
   snap |-> <<>>, stable |-> {}]

\* `for client_id in self.channels[channel]: await self.send_message(...)` from
\* the iterator's position up to the next awaited send_json: the iterator reads
\* the live list at its index; send_message does nothing for a client that is
\* not in active_connections
RECURSIVE ChannelWalk(_, _, _)
ChannelWalk(c, conns, chs) ==
  IF c.i > Len(chs[c.channel]) THEN [c EXCEPT !.pc = "returned", !.cur = None]
  ELSE LET client_id == chs[c.channel][c.i]
       IN IF client_id \in conns
          THEN [c EXCEPT !.pc = "sending", !.cur = client_id, !.i = @ + 1,
                         !.attempted = @ \cup {client_id}]
          ELSE ChannelWalk([c EXCEPT !.i = @ + 1], conns, chs)

\* ------------------------------------------------------ threat feed
\* (app/routes/ws/threats.py)
FeedSockets == {1, 2, 3}
FeedUsers == {"u1", "u2"}
FeedTokens == FeedUsers \cup {BadToken}

\* ConnectionManager.active_connections is a dict user_id -> websocket. It is
\* kept as the dict keeps it: the sequence of its entries in insertion order,
\* where `del` leaves the entry in place with no value (ws = 0) and a key set
\* again after its deletion gets a new entry at the end. (Each websocket
\* registers once, so the entries never outgrow the table and are never
\* compacted.)
FeedLive(e) == {i \in 1..Len(e) : e[i].ws # 0}
FeedValues(e) == {e[i].ws : i \in FeedLive(e)}
FeedHas(e, user_id) == \E i \in FeedLive(e) : e[i].user = user_id

\* active_connections[user_id] = websocket
feed_set(e, user_id, ws) ==
  IF FeedHas(e, user_id)
  THEN [i \in 1..Len(e) |-> IF i \in FeedLive(e) /\ e[i].user = user_id
                            THEN [user |-> user_id, ws |-> ws] ELSE e[i]]
  ELSE Append(e, [user |-> user_id, ws |-> ws])

\* ConnectionManager.disconnect: `if user_id in ...: del ...[user_id]`
feed_disconnect(e, user_id) ==
  [i \in 1..Len(e) |-> IF e[i].user = user_id THEN [user |-> user_id, ws |-> 0] ELSE e[i]]

\* iter(active_connections.values()): the size of the dict when the iterator
\* was made, its position in the entries, and the number of values left
feed_iter(e) ==
  [used |-> Cardinality(FeedLive(e)), pos |-> 1, len |-> Cardinality(FeedLive(e))]

\* next() on that iterator: RuntimeError when the size of the dict has
\* changed, or when a value is found after all the expected ones were given
feed_next(it, e) ==
  LET rest == {i \in FeedLive(e) : i >= it.pos}
      first == CHOOSE i \in rest : \A j \in rest : i <= j
  IN IF it.used # Cardinality(FeedLive(e)) THEN [kind |-> "RuntimeError", ws |-> 0, it |-> it]
     ELSE IF rest = {} THEN [kind |-> "StopIteration", ws |-> 0, it |-> it]
     ELSE IF it.len = 0 THEN [kind |-> "RuntimeError", ws |-> 0, it |-> it]
     ELSE [kind |-> "value", ws |-> e[first].ws,
           it |-> [it EXCEPT !.pos = first + 1, !.len = @ - 1]]

NoFeedTask == [pc |-> "new", user |-> None]

\* The broadcast call: its iterator and the websocket whose send_json is
\* awaited; attempted, snap (the websockets registered when the call started)
\* and error are history
NoFeedCall ==
  [pc |-> "idle", it |-> [used |-> 0, pos |-> 1, len |-> 0], cur |-> 0,
   attempted |-> {}, snap |-> {}, error |-> None]

\* `for connection in self.active_connections.values(): await
\* connection.send_json(message)` from the iterator's position up to the next
\* awaited send_json, the end of the loop, or the iterator's exception
FeedWalk(c, e) ==
  LET n == feed_next(c.it, e)
  IN IF n.kind = "value"
     THEN [c EXCEPT !.pc = "sending", !.it = n.it, !.cur = n.ws,
                    !.attempted = @ \cup {n.ws}]
     ELSE IF n.kind = "StopIteration" THEN [c EXCEPT !.pc = "returned", !.cur = 0]
     ELSE [c EXCEPT !.pc = "raised", !.cur = 0, !.error = "RuntimeError"]

\* ------------------------------------------------------------------ Init
Init ==
  /\ active_connections = <<>>
  /\ user_connections = EmptyDict
  /\ scan_connections = EmptyDict
  /\ group_connections = EmptyDict
  /\ client = [w \in Sockets |-> NoClient]
  /\ closed = [w \in Sockets |-> 0]
  /\ ep = [w \in Sockets |->
             [pc |-> "new", client_id |-> None, token |-> None, call |-> NoCall,
              dclient |-> 0, frames |-> 0]]
  /\ prod = [p \in Producers |-> [pc |-> "idle", call |-> NoCall, n |-> 0]]
  /\ lastWrite = NoWrite
  /\ gone = ClientIds
  /\ lastFrame = NoFrame
  /\ lockHeld = FALSE
  /\ factory_models = {}
  /\ initialized = FALSE
  /\ analysis = [a \in Callers |-> NoAnalysis]
  /\ channel_connections = {}
  /\ channels = EmptyDict
  /\ channel_call = NoChannelCall
  /\ feed_connections = <<>>
  /\ feed_ep = [w \in FeedSockets |-> NoFeedTask]
  /\ feed_call = NoFeedCall

\* --------------------------------------------------------------- actions
\* Every running dispatch call learns that client_id was unregistered (history)
MarkLeftEp(e, cid) == [w \in Sockets |-> [e[w] EXCEPT !.call = MarkLeft(@, cid)]]
MarkLeftProd(pr, cid) ==
  [p \in Producers |-> IF pr[p].pc = "run" THEN [pr[p] EXCEPT !.call = MarkLeft(@, cid)] ELSE pr[p]]

\* A step that handles no frame and does not enter the lock section
NoFrameNoLock == lastFrame' = NoFrame /\ lockHeld' = FALSE

\* A connection attempt arrives: websockets are opened in the order 1, 2, ...
\* Client ids are interchangeable: the id of the first connection is named c1.
Arrives(w, cid) ==
  /\ ep[w].pc = "new"
  /\ IF w = 1 THEN cid = "c1" ELSE ep[w - 1].pc # "new"

\* /ws endpoint up to the first suspension after registering:
\* authenticate_connection -> connect: accept, create the client, register it
\* under the lock, start sending the `connected` notification
Connect(w, cid, token, scan) ==
  /\ Arrives(w, cid)
  /\ token = None \/ verify_jwt_token(token) # "invalid"
  /\ LET user == IF token = None THEN None ELSE verify_jwt_token(token)
         c == [client_id |-> cid, user_id |-> user, scan_id |-> scan,
               groups |-> DefaultGroups]
     IN /\ client' = [client EXCEPT ![w] = c]
        /\ active_connections' = DictSet(active_connections, cid, w)
        /\ user_connections' = IF user # None THEN IndexAdd(user_connections, user, cid)
                                             ELSE user_connections
        /\ scan_connections' = IF scan # None THEN IndexAdd(scan_connections, scan, cid)
                                             ELSE scan_connections
        /\ group_connections' = AddGroups(group_connections, c.groups, cid)
  /\ ep' = [ep EXCEPT ![w].pc = IF token = None THEN "loop" ELSE "connected",
                         ![w].client_id = cid, ![w].token = token]
  /\ lastWrite' = [to |-> w, kind |-> "connected", by |-> w]
  /\ gone' = gone \ {cid}
  /\ lastFrame' = NoFrame
  /\ lockHeld' = TRUE
  /\ UNCHANGED <<engine, pubsub, feed, closed, prod>>

\* authenticate_connection with a token that verify_jwt_token rejects:
\* close with the policy-violation code and raise WebSocketDisconnect
AuthFail(w, cid, token) ==
  /\ Arrives(w, cid)
  /\ token # None /\ verify_jwt_token(token) = "invalid"
  /\ closed' = [closed EXCEPT ![w] = WS_1008_POLICY_VIOLATION]
  /\ ep' = [ep EXCEPT ![w].pc = "finally", ![w].client_id = cid, ![w].token = token]
  /\ lastWrite' = NoWrite
  /\ NoFrameNoLock
  /\ UNCHANGED <<engine, pubsub, feed, registry, client, prod, gone>>

\* connect: websocket.accept() raises (the endpoint has already accepted the
\* websocket).  With a token the error is caught by authenticate_connection,
\* which closes with the policy-violation code; without one it propagates.
AcceptFail(w, cid, token) ==
  /\ Arrives(w, cid)
  /\ token = None \/ verify_jwt_token(token) # "invalid"
  /\ closed' = [closed EXCEPT ![w] = IF token = None THEN 0 ELSE WS_1008_POLICY_VIOLATION]
  /\ ep' = [ep EXCEPT ![w].pc = "finally", ![w].client_id = cid, ![w].token = token]
  /\ lastWrite' = NoWrite
  /\ NoFrameNoLock
  /\ UNCHANGED <<engine, pubsub, feed, registry, client, prod, gone>>

\* connect resumes after the `connected` send: with a user_id it broadcasts
\* user_joined to the others; then the endpoint enters its receive loop (a
\* client without user_id goes there directly)
Joined(w, ok) ==
  /\ ep[w].pc = "connected"
  /\ IF client[w].user_id # None
     THEN LET r == RunCall(NewCall("broadcast", "user_joined",
                                   KeyList(active_connections), {ep[w].client_id}),
                           active_connections, client, ok, w)
          IN /\ ep' = [ep EXCEPT ![w].pc = IF r.fin THEN "loop" ELSE "joining",
                                 ![w].call = IF r.fin THEN NoCall ELSE r.call]
             /\ lastWrite' = r.write
     ELSE /\ ep' = [ep EXCEPT ![w].pc = "loop"]
          /\ lastWrite' = NoWrite
  /\ NoFrameNoLock
  /\ UNCHANGED <<engine, pubsub, feed, registry, client, closed, prod, gone>>

\* The broadcast issued by connect or disconnect resumes after a send
BroadcastStep(w, ok) ==
  /\ ep[w].pc \in {"joining", "leaving"}
  /\ LET r == RunCall(ep[w].call, active_connections, client, ok, w)
     IN /\ ep' = [ep EXCEPT ![w].pc = IF ~r.fin THEN @
                                      ELSE IF @ = "joining" THEN "loop" ELSE "done",
                            ![w].call = IF r.fin THEN NoCall ELSE r.call]
        /\ lastWrite' = r.write
  /\ NoFrameNoLock
  /\ UNCHANGED <<engine, pubsub, feed, registry, client, closed, prod, gone>>

\* send_to_client(client_id, notification): look the id up, write to the
\* stored client; no write (False) when the id is absent
ClientWrite(ac, cid, kind, by) ==
  IF Get(ac, cid) = 0 THEN NoWrite
  ELSE [to |-> Get(ac, cid), kind |-> kind, by |-> by]

\* The kind of the frame the receive loop ends up sending: building a
\* Notification of an unknown kind raises, and the loop's `except Exception`
\* answers with an error notification instead
ResponseKind(kind) == IF NotificationValid(kind) THEN kind ELSE "error"

RECURSIVE SubscribeLoop(_, _, _)
\* subscribe: for group in groups: if group not in client.groups: add it to
\* client.groups and add client_id to group_connections[group]
SubscribeLoop(st, groups, cid) ==
  IF groups = <<>> THEN st
  ELSE LET g == Head(groups) IN
       SubscribeLoop(IF g \notin st.groups
                     THEN [groups |-> st.groups \cup {g}, gc |-> IndexAdd(st.gc, g, cid)]
                     ELSE st,
                     Tail(groups), cid)

RECURSIVE UnsubscribeLoop(_, _, _)
\* unsubscribe: for group in groups: if group in client.groups: remove it and
\* discard client_id from group_connections[group], deleting an emptied key
UnsubscribeLoop(st, groups, cid) ==
  IF groups = <<>> THEN st
  ELSE LET g == Head(groups) IN
       UnsubscribeLoop(IF g \in st.groups
                       THEN [groups |-> st.groups \ {g}, gc |-> IndexDiscard(st.gc, g, cid)]
                       ELSE st,
                       Tail(groups), cid)

RECURSIVE SumFrames(_)
SumFrames(S) == IF S = {} THEN 0
                ELSE LET w == CHOOSE x \in S : TRUE IN ep[w].frames + SumFrames(S \ {w})
\* control frames handled so far on all connections
FramesHandled == SumFrames(Sockets)

\* The receive loop of the endpoint handles one control frame
Frame(w, type, groups) ==
  /\ ep[w].pc = "loop"
  /\ closed[w] = 0
  /\ type \in {"subscribe", "unsubscribe"} \/ groups = <<"public">>
  /\ FramesHandled < MaxFrames
  /\ LET cid == ep[w].client_id
         st0 == [groups |-> client[w].groups, gc |-> group_connections]
         st == IF type = "subscribe" THEN SubscribeLoop(st0, groups, cid)
               ELSE IF type = "unsubscribe" THEN UnsubscribeLoop(st0, groups, cid)
               ELSE st0
         kind == IF type = "ping" THEN "pong"
                 ELSE IF type = "malformed" THEN "error"
                 ELSE "subscription_updated"
     IN /\ client' = [client EXCEPT ![w].groups = st.groups]
        /\ group_connections' = st.gc
        /\ lastWrite' = ClientWrite(active_connections, cid, ResponseKind(kind), w)
  /\ ep' = [ep EXCEPT ![w].frames = @ + 1]
  /\ lastFrame' = [on |-> w, type |-> type, groups |-> groups]
  /\ lockHeld' = FALSE
  /\ UNCHANGED <<engine, pubsub, feed, active_connections, user_connections, scan_connections,
                 closed, prod, gone>>

\* The receive loop of handle_client handles one frame: a ping is answered
\* with a pong written to the task's own client; a message that is not JSON is
\* only logged, and any other message is ignored
HandleClientFrame(w, type) ==
  /\ ep[w].pc = "loop"
  /\ closed[w] = 0
  /\ FramesHandled < MaxFrames
  /\ lastWrite' = IF type = "ping" THEN [to |-> w, kind |-> "pong", by |-> w] ELSE NoWrite
  /\ ep' = [ep EXCEPT ![w].frames = @ + 1]
  /\ lastFrame' = [on |-> w, type |-> type, groups |-> <<"public">>]
  /\ lockHeld' = FALSE
  /\ UNCHANGED <<engine, pubsub, feed, registry, client, closed, prod, gone>>

\* disconnect(client_id) up to its first suspension: look the client up,
\* return if there is none, else close its websocket
DisconnectStart(w) ==
  LET cid == ep[w].client_id
      c == Get(active_connections, cid)
  IN /\ IF c = 0
        THEN /\ ep' = [ep EXCEPT ![w].pc = "done"]
             /\ closed' = closed
        ELSE /\ ep' = [ep EXCEPT ![w].pc = "closing", ![w].dclient = c]
             /\ closed' = [closed EXCEPT ![c] = IF @ = 0 THEN WS_1000_NORMAL_CLOSURE ELSE @]
     /\ lastWrite' = NoWrite
     /\ NoFrameNoLock
     /\ UNCHANGED <<engine, pubsub, feed, registry, client, prod, gone>>

\* receive_text raises WebSocketDisconnect (the peer went away, or the server
\* closed this websocket): break, then the endpoint's finally calls disconnect
ReceiveDisconnect(w) == ep[w].pc = "loop" /\ DisconnectStart(w)

\* The endpoint's finally after a failed connection attempt calls disconnect
Finally(w) == ep[w].pc = "finally" /\ DisconnectStart(w)

\* disconnect resumes after close(): remove the client from the registry under
\* the lock, then broadcast user_left if the closed client had a user_id
DisconnectLock(w, ok) ==
  /\ ep[w].pc = "closing"
  /\ LET cid == ep[w].client_id
         c == client[ep[w].dclient]
         ac == DictPop(active_connections, cid)
         r == RunCall(NewCall("broadcast", "user_left", KeyList(ac), {}),
                      ac, client, ok, w)
         left == c.user_id # None /\ ~r.fin
     IN /\ active_connections' = ac
        /\ user_connections' = IF c.user_id # None
                               THEN IndexDiscard(user_connections, c.user_id, cid)
                               ELSE user_connections
        /\ scan_connections' = IF c.scan_id # None
                               THEN IndexDiscard(scan_connections, c.scan_id, cid)
                               ELSE scan_connections
        /\ group_connections' = DiscardGroups(group_connections, c.groups, cid)
        /\ ep' = [MarkLeftEp(ep, cid) EXCEPT ![w].pc = IF left THEN "leaving" ELSE "done",
                                             ![w].call = IF left THEN r.call ELSE NoCall]
        /\ prod' = MarkLeftProd(prod, cid)
        /\ lastWrite' = IF c.user_id # None THEN r.write ELSE NoWrite
        /\ gone' = gone \cup {cid}
  /\ lastFrame' = NoFrame
  /\ lockHeld' = TRUE
  /\ UNCHANGED <<engine, pubsub, feed, client, closed>>

\* mutant: every call resolves all the registered ids
Snapshots_all(op, target) == {KeyList(active_connections)}
\* The targets a dispatch call resolves when it starts
Snapshots(op, target) ==
  IF op = "broadcast" THEN {KeyList(active_connections)}
  ELSE IF op = "client" THEN {<<target>>}
  ELSE IF op = "user" THEN Perms(IndexGet(user_connections, target))
  ELSE IF op = "scan" THEN Perms(IndexGet(scan_connections, target))
  ELSE Perms(IndexGet(group_connections, target))

Targets(op) ==
  IF op = "broadcast" THEN {None}
  ELSE IF op = "client" THEN ClientIds
  ELSE IF op = "user" THEN Users
  ELSE IF op = "scan" THEN Scans
  ELSE Groups

\* A producer calls send_to_client / send_to_user / send_to_scan /
\* send_to_group / broadcast: resolve the target ids, start the first send
Dispatch(p, op, target, exclC, ok) ==
  /\ prod[p].pc = "idle"
  /\ prod[p].n < MaxSends
  /\ target \in Targets(op)
  /\ IF op = "broadcast" THEN TRUE ELSE exclC = {}
  /\ \E ids \in Snapshots(op, target) :
       LET r == RunCall(NewCall(op, "system_alert", ids, exclC),
                        active_connections, client, ok, 0)
       IN /\ prod' = [prod EXCEPT ![p].pc = IF r.fin THEN "idle" ELSE "run",
                                  ![p].call = IF r.fin THEN NoCall ELSE r.call,
                                  ![p].n = @ + 1]
          /\ lastWrite' = r.write
  /\ NoFrameNoLock
  /\ UNCHANGED <<engine, pubsub, feed, registry, client, closed, ep, gone>>

\* The producer's call resumes after a send: start the next one, or return
DispatchStep(p, ok) ==
  /\ prod[p].pc = "run"
  /\ LET r == RunCall(prod[p].call, active_connections, client, ok, 0)
     IN /\ prod' = [prod EXCEPT ![p].pc = IF r.fin THEN "idle" ELSE "run",
                                ![p].call = IF r.fin THEN NoCall ELSE r.call]
        /\ lastWrite' = r.write
  /\ NoFrameNoLock
  /\ UNCHANGED <<engine, pubsub, feed, registry, client, closed, ep, gone>>

\* The call record with which a producer's call returns in this step: the
\* rest of the loop runs without a write
Returned(p) == RunCall(prod[p].call, active_connections, client, TRUE, 0).call

\* The value a dispatch call returns.  send_to_client: the bool of the send;
\* send_to_user / send_to_scan / send_to_group: results = [], one
\* results.append(await send_to_client(...)) per resolved id, a list of bools;
\* broadcast: results = {}, results[client_id] = result per send, a dict
ReturnValue(c) ==
  IF c.op = "client" THEN [shape |-> "bool", keys |-> <<>>, vals |-> <<c.results[1].ok>>]
  ELSE IF c.op = "broadcast"
  THEN [shape |-> "dict",
        keys |-> [i \in 1..Len(c.results) |-> c.results[i].id],
        vals |-> [i \in 1..Len(c.results) |-> c.results[i].ok]]
  ELSE [shape |-> "list", keys |-> <<>>,
        vals |-> [i \in 1..Len(c.results) |-> c.results[i].ok]]

\* send_notification: results["count"] is len(results["sent_to"]) for the
\* broadcast, user, group and scan targets, and 1 if success else 0 for client
send_notification_count(c) ==
  IF c.op = "client" THEN (IF ReturnValue(c).vals[1] THEN 1 ELSE 0)
  ELSE Len(ReturnValue(c).vals)

DispatchOps == {"broadcast", "client", "user", "scan", "group"}
Exclusions == {{}} \cup {{c} : c \in ClientIds}

\* The steps of the endpoint tasks
EndpointNext ==
  \/ \E w \in Sockets, cid \in ClientIds, token \in Tokens,
        scan \in Scans \cup {None} : Connect(w, cid, token, scan)
  \/ \E w \in Sockets, cid \in ClientIds, token \in Tokens : AuthFail(w, cid, token)
  \/ \E w \in Sockets, cid \in ClientIds, token \in Tokens : AcceptFail(w, cid, token)
  \/ \E w \in Sockets, ok \in BOOLEAN : Joined(w, ok)
  \/ \E w \in Sockets, ok \in BOOLEAN : BroadcastStep(w, ok)
  \/ \E w \in Sockets, type \in FrameTypes, groups \in FrameGroupLists :
        Frame(w, type, groups)
  \/ \E w \in Sockets : ReceiveDisconnect(w)
  \/ \E w \in Sockets : Finally(w)
  \/ \E w \in Sockets, ok \in BOOLEAN : DisconnectLock(w, ok)

\* The steps of tasks that serve their connection with handle_client, which
\* is given the user_id by its caller: connect, receive loop, disconnect
HandleClientNext ==
  \/ \E w \in Sockets, cid \in ClientIds, user \in Users \cup {None},
        scan \in Scans \cup {None} : Connect(w, cid, user, scan)
  \/ \E w \in Sockets, ok \in BOOLEAN : Joined(w, ok)
  \/ \E w \in Sockets, ok \in BOOLEAN : BroadcastStep(w, ok)
  \/ \E w \in Sockets, type \in FrameTypes : HandleClientFrame(w, type)
  \/ \E w \in Sockets : ReceiveDisconnect(w)
  \/ \E w \in Sockets, ok \in BOOLEAN : DisconnectLock(w, ok)

\* A caller that is not inside a call starts its next one
Free(a) ==
  /\ analysis[a].pc \in {"idle", "returned", "raised"}
  /\ analysis[a].n < MaxAnalyses

\* await analyzer.initialize()
Initialize(a, fails) ==
  /\ Free(a)
  /\ LET i == initialize(initialized, factory_models, fails)
     IN /\ initialized' = i.initialized
        /\ factory_models' = i.models
        /\ analysis' = [analysis EXCEPT ![a] =
             [pc |-> IF i.raised THEN "raised" ELSE "returned", op |-> "initialize",
              result |-> NoResult, failed |-> None,
              skipped |-> IF initialized THEN {} ELSE MODEL_REGISTRY \ i.models,
              n |-> @.n + 1]]
  /\ UNCHANGED <<fanout, pubsub, feed>>

\* analyze_network_traffic up to its first suspension in the database:
\* _get_model("network_ids") (which initializes the analyzer if needed and
\* loads the model if it is missing), model.predict(traffic_data), and, when a
\* user and a db_session are given, db_session.add and the start of commit
Analyze(a, input, db, fails, predicts, score) ==
  /\ Free(a)
  /\ score \in PredictScores(input)
  /\ LET i == initialize(initialized, factory_models, fails)
         c0 == [pc |-> "predicted", op |-> "analyze", result |-> NoResult,
                failed |-> None, skipped |-> {}, n |-> analysis[a].n + 1]
         loaded == "network_ids" \in i.models \/ "network_ids" \notin fails
     IN IF i.raised
        THEN /\ initialized' = i.initialized
             /\ factory_models' = i.models
             /\ analysis' = [analysis EXCEPT ![a] = analyze_except(c0, "initialize")]
        ELSE /\ initialized' = i.initialized
             /\ factory_models' = IF loaded THEN i.models \cup {"network_ids"} ELSE i.models
             /\ analysis' = [analysis EXCEPT ![a] =
                  IF ~loaded THEN analyze_except(c0, "get_model")
                  ELSE IF input = "none" \/ ~predicts THEN analyze_except(c0, "predict")
                  ELSE [c0 EXCEPT !.pc = IF db THEN "committing" ELSE "returned",
                                  !.result = [error |-> FALSE,
                                              threat_level |-> ThreatLevel(score),
                                              risk_score |-> score]]]
  /\ UNCHANGED <<fanout, pubsub, feed>>

\* db_session.commit() and refresh(scan_result) return or raise
Persist(a, ok) ==
  /\ analysis[a].pc = "committing"
  /\ analysis' = [analysis EXCEPT ![a] =
       IF ok THEN [@ EXCEPT !.pc = "publishing"] ELSE analyze_except(@, "persist")]
  /\ UNCHANGED <<fanout, pubsub, feed, factory_models, initialized>>

\* event_dispatcher.publish("scan_complete", ...) returns or raises (a
\* subscriber callback raised inside asyncio.gather); then `return result`
Publish(a, ok) ==
  /\ analysis[a].pc = "publishing"
  /\ analysis' = [analysis EXCEPT ![a] =
       IF ok THEN [@ EXCEPT !.pc = "returned"] ELSE analyze_except(@, "publish")]
  /\ UNCHANGED <<fanout, pubsub, feed, factory_models, initialized>>

\* The steps of the callers of the analyzer
AnalyzerNext ==
  \/ \E a \in Callers, fails \in SUBSET MODEL_REGISTRY : Initialize(a, fails)
  \/ \E a \in Callers, input \in Inputs, db \in BOOLEAN, fails \in SUBSET MODEL_REGISTRY,
        predicts \in BOOLEAN, score \in Scores : Analyze(a, input, db, fails, predicts, score)
  \/ \E a \in Callers, ok \in BOOLEAN : Persist(a, ok)
  \/ \E a \in Callers, ok \in BOOLEAN : Publish(a, ok)

\* The steps of the producers
DispatchNext ==
  \/ \E p \in Producers, op \in DispatchOps, exclC \in Exclusions, ok \in BOOLEAN :
       \E target \in Targets(op) : Dispatch(p, op, target, exclC, ok)
  \/ \E p \in Producers, ok \in BOOLEAN : DispatchStep(p, ok)

Next == EndpointNext \/ DispatchNext

\* Endpoint tasks and producers
Spec == Init /\ [][Next]_vars

\* Endpoint tasks alone (producers never change the registry or a task)
SpecRegistry == Init /\ [][EndpointNext]_vars

\* Connections served by handle_client instead of the /ws endpoint
SpecHandleClient == Init /\ [][HandleClientNext]_vars

\* The analysis engine and its callers
SpecAnalyzer == Init /\ [][AnalyzerNext]_vars

\* ------------------------------------------------------------ properties
\* The client stored under client_id, NoClient when the id is not registered
Stored(cid) ==
  IF Get(active_connections, cid) = 0 THEN NoClient ELSE client[Get(active_connections, cid)]

Registered(cid) == Get(active_connections, cid) # 0

\* A disconnect that looked up websocket ws has removed its registry entries
Unregistered(ws) ==
  \E w \in Sockets : ep[w].dclient = ws /\ ep[w].pc \in {"leaving", "done"}

\* The dispatch calls in progress, each with the task that runs it
RunningCalls ==
  {[by |-> w, call |-> ep[w].call] : w \in {x \in Sockets : ep[x].pc \in {"joining", "leaving"}}}
  \cup {[by |-> 0, call |-> prod[p].call] : p \in {x \in Producers : prod[x].pc = "run"}}

AttemptedIds(c) == {c.results[i].id : i \in 1..Len(c.results)}

\* C1: a client_id is in group_connections[g] iff it is a key of
\* active_connections and g is in the groups of the client stored under it
C1_GroupIndexInvariant ==
  \A cid \in ClientIds, g \in Groups :
    cid \in IndexGet(group_connections, g) <=> (Registered(cid) /\ g \in Stored(cid).groups)

\* C2: a client_id is in user_connections[u] iff it is a key of
\* active_connections whose client has user_id u, and likewise for
\* scan_connections[s] and scan_id
C2_PrincipalIndexInvariant ==
  /\ \A cid \in ClientIds, u \in Users :
       cid \in IndexGet(user_connections, u) <=> (Registered(cid) /\ Stored(cid).user_id = u)
  /\ \A cid \in ClientIds, sc \in Scans :
       cid \in IndexGet(scan_connections, sc) <=> (Registered(cid) /\ Stored(cid).scan_id = sc)

C4_DuplicateRegisterIsNoop ==
  [][\A w \in Sockets :
       (/\ ep[w].pc = "new"
        /\ ep'[w].pc \in {"connected", "loop"}
        /\ Registered(ep'[w].client_id))
       => UNCHANGED registry]_vars

\* C5: disconnect(client_id) for an id that a completed disconnect removed (or
\* that was never registered) returns at once: it changes no registry map and
\* no client, closes nothing and sends nothing
C5_DisconnectIdempotent ==
  [][\A w \in Sockets :
       (/\ ep[w].pc \in {"loop", "finally"}
        /\ ep'[w].pc \in {"closing", "done"}
        /\ ep[w].client_id \in gone)
       => (/\ ep'[w].pc = "done"
           /\ UNCHANGED <<registry, client, closed>>
           /\ lastWrite' = NoWrite)]_vars

\* Two connections were registered under one id; the disconnect of one removed
\* the entries and the disconnect of the other found nothing to do
C5_Witness ==
  \E w1, w2 \in Sockets :
    /\ w1 # w2
    /\ client[w1].client_id = client[w2].client_id
    /\ client[w1].client_id # None
    /\ ep[w1].pc = "done" /\ ep[w1].dclient # 0
    /\ ep[w2].pc = "done" /\ ep[w2].dclient = 0

\* C6: a subscribe or unsubscribe frame handled for a connection whose
\* client_id is no longer a key of active_connections changes neither the
\* client's groups nor group_connections
C6_SubscribeAfterUnregisterIsNotFound ==
  [][\A w \in Sockets :
       (/\ ep'[w].frames = ep[w].frames + 1
        /\ ~Registered(ep[w].client_id))
       => (/\ client'[w].groups = client[w].groups
           /\ group_connections' = group_connections)]_vars

\* C7: when a token is supplied and fails verification, the websocket is
\* closed with code 1008, no client is created for it, it is never a value of
\* active_connections, and the attempt changes no registry map
C7_AuthFailureNeverRegisters ==
  /\ [](\A w \in Sockets :
          (ep[w].token = BadToken)
          => (/\ closed[w] = WS_1008_POLICY_VIOLATION
              /\ client[w] = NoClient
              /\ w \notin Values(active_connections)))
  /\ [][\A w \in Sockets :
          (ep[w].pc = "new" /\ ep'[w].token = BadToken) => UNCHANGED registry]_vars

\* A connection attempt with a bad token has ended while another connection
\* is registered
C7_Witness ==
  \E w \in Sockets :
    /\ ep[w].token = BadToken
    /\ ep[w].pc = "done"
    /\ \E w2 \in Sockets : w2 \in Values(active_connections)

\* C8: in a broadcast, a failed write to one connection is recorded as false
\* for that connection, every delivered write as true, and every other
\* connection reached by the loop that is registered and not excluded is
\* still written to; the call returns only when the loop is exhausted
C8_IsolationUnderFailure ==
  /\ [](\A r \in RunningCalls :
          r.call.op = "broadcast" =>
            /\ \A i \in 1..Len(r.call.results) :
                 r.call.results[i].ok = r.call.results[i].delivered
            /\ \A j \in 1..Len(r.call.ids) :
                 (j < r.call.idx) =>
                   \/ r.call.ids[j] \in AttemptedIds(r.call)
                   \/ r.call.ids[j] \in r.call.exclC \cup r.call.left)
  /\ [][\A p \in Producers :
          (prod[p].pc = "run" /\ prod'[p].pc = "idle" /\ prod[p].call.op = "broadcast")
          => \A j \in 1..Len(prod[p].call.ids) :
               (j >= prod[p].call.idx) =>
                 \/ ~Registered(prod[p].call.ids[j])
                 \/ prod[p].call.ids[j] \in prod[p].call.exclC]_vars

\* A broadcast whose first write failed and whose second write was delivered
C8_Witness ==
  \E p \in Producers :
    /\ prod[p].pc = "run"
    /\ prod[p].call.op = "broadcast"
    /\ Len(prod[p].call.results) = 2
    /\ ~prod[p].call.results[1].delivered /\ ~prod[p].call.results[1].ok
    /\ prod[p].call.results[2].delivered /\ prod[p].call.results[2].ok

\* C9: when a dispatch call that recorded a failed send to a connection
\* returns, that connection has been unregistered or a task is closing it
C9_FailedSendTriggersUnregister ==
  [][\A p \in Producers :
       (prod[p].pc = "run" /\ prod'[p].pc = "idle")
       => \A i \in 1..Len(prod[p].call.results) :
            (~prod[p].call.results[i].ok /\ prod[p].call.results[i].ws # 0)
            => \/ prod[p].call.results[i].ws \notin Values(active_connections')
               \/ \E w \in Sockets : /\ ep'[w].pc = "closing"
                                     /\ ep'[w].dclient = prod[p].call.results[i].ws]_vars

\* C10 as stated: a broadcast that returns has attempted a send to every id
\* that was a key of active_connections when it was called, except the
\* excluded ones
C10_AttemptsAllAtCall ==
  [][\A p \in Producers :
       (prod[p].pc = "run" /\ prod'[p].pc = "idle" /\ prod[p].call.op = "broadcast")
       => \A j \in 1..Len(prod[p].call.ids) :
            \/ prod[p].call.ids[j] \in prod[p].call.exclC
            \/ prod[p].call.ids[j] \in AttemptedIds(prod[p].call)]_vars

\* C10 amended: a broadcast attempts a send to every id that was a key of
\* active_connections when it was called and has not been unregistered since,
\* except the excluded ids, to which it never sends; the user_joined broadcast
\* of connect is never written to the newly connected client
C10_BroadcastExclusion ==
  /\ [](\A r \in RunningCalls :
          r.call.op = "broadcast" =>
            /\ \A j \in 1..Len(r.call.ids) :
                 (j < r.call.idx) =>
                   \/ r.call.ids[j] \in r.call.exclC
                   \/ r.call.ids[j] \in r.call.left
                   \/ r.call.ids[j] \in AttemptedIds(r.call)
            /\ AttemptedIds(r.call) \cap r.call.exclC = {}
            /\ r.call.kind = "user_joined" =>
                 \A i \in 1..Len(r.call.results) : r.call.results[i].ws # r.by)
  /\ [][\A p \in Producers :
          (prod[p].pc = "run" /\ prod'[p].pc = "idle" /\ prod[p].call.op = "broadcast")
          => \A j \in 1..Len(prod[p].call.ids) :
               (j >= prod[p].call.idx) =>
                 prod[p].call.ids[j] \in prod[p].call.exclC \cup prod[p].call.left]_vars
  /\ [](lastWrite.kind = "user_joined" => lastWrite.to # lastWrite.by)

\* A broadcast over two registered connections that excluded the one
\* registered first and wrote to the other
C10_Witness ==
  \E r \in RunningCalls :
    /\ r.call.op = "broadcast"
    /\ Len(r.call.ids) = 2
    /\ r.call.exclC = {r.call.ids[1]}
    /\ r.call.idx > 2
    /\ AttemptedIds(r.call) = {r.call.ids[2]}

\* A producer's call returns in this step
Returns(p) == prod[p].pc = "run" /\ prod'[p].pc = "idle"

\* C11: send_to_group, send_to_user and send_to_scan return a result keyed by
\* connection id: one entry per id the call sent to, holding the outcome of
\* that send, and no entry for a connection that has been unregistered
C11_GroupDispatchReturnsMap ==
  [][\A p \in Producers :
       (Returns(p) /\ prod[p].call.op \in {"user", "scan", "group"})
       => LET c == Returned(p)
              v == ReturnValue(c)
          IN /\ v.shape = "dict"
             /\ Len(v.keys) = Len(v.vals)
             /\ \A i \in 1..Len(v.keys) :
                  /\ v.keys[i] = c.results[i].id
                  /\ v.vals[i] = c.results[i].ok
                  /\ c.results[i].ws # 0]_vars

\* C12: the count reported by send_notification equals the number of
\* connections to which the send succeeded, for every target type
C12_CountIsSuccesses ==
  [][\A p \in Producers :
       (Returns(p) /\ prod[p].call.exclC = {})
       => send_notification_count(Returned(p))
            = Cardinality({i \in 1..Len(Returned(p).results) : Returned(p).results[i].ok})]_vars

\* The groups named by the frame handled in this step
Asked == {lastFrame'.groups[i] : i \in 1..Len(lastFrame'.groups)}

\* The endpoint handled a frame of websocket w, which is the client registered
\* under its client_id
HandledOwn(w) ==
  /\ lastFrame'.on = w
  /\ Get(active_connections, ep[w].client_id) = w

\* C13: subscribing to groups already held and unsubscribing from groups not
\* held change neither client.groups nor group_connections, a subscribe adds
\* and an unsubscribe removes exactly the named groups, and the connection is
\* answered with a subscription_updated frame
C13_SubscribeIdempotent ==
  [][\A w \in Sockets :
       (HandledOwn(w) /\ lastFrame'.type \in {"subscribe", "unsubscribe"})
       => /\ (lastFrame'.type = "subscribe" /\ Asked \subseteq client[w].groups)
               => (client'[w] = client[w] /\ group_connections' = group_connections)
          /\ (lastFrame'.type = "unsubscribe" /\ Asked \cap client[w].groups = {})
               => (client'[w] = client[w] /\ group_connections' = group_connections)
          /\ client'[w].groups = IF lastFrame'.type = "subscribe"
                                 THEN client[w].groups \cup Asked
                                 ELSE client[w].groups \ Asked
          /\ lastWrite' = [to |-> w, kind |-> "subscription_updated", by |-> w]]_vars

\* C16: building a Notification of a kind outside NotificationType does not
\* fail, and the server's subscription_updated response to a subscribe or
\* unsubscribe frame is written to the connection with that kind
C16_CustomKindsAccepted ==
  /\ [](\A kind \in CustomKinds : NotificationValid(kind))
  /\ [][\A w \in Sockets :
          (HandledOwn(w) /\ lastFrame'.type \in {"subscribe", "unsubscribe"})
          => lastWrite'.kind = "subscription_updated"]_vars

\* C14: a malformed frame from a registered connection is answered with
\* exactly one error notification written to that connection; the registry,
\* the clients and the websockets are unchanged and the receive loop goes on;
\* a ping handled by the loop is answered with a pong to that connection
C14_MalformedFrameAnswered ==
  [][\A w \in Sockets :
       /\ (HandledOwn(w) /\ lastFrame'.type = "malformed")
            => /\ lastWrite' = [to |-> w, kind |-> "error", by |-> w]
               /\ UNCHANGED <<registry, client, closed>>
               /\ ep'[w].pc = "loop"
       /\ (HandledOwn(w) /\ lastFrame'.type = "ping")
            => lastWrite' = [to |-> w, kind |-> "pong", by |-> w]]_vars

\* The tasks whose disconnect has run the lock section (pop, discards) for
\* websocket ws and gone on to the user_left broadcast if ws had a user_id
Closers(ws) == {w \in Sockets : ep[w].dclient = ws /\ ep[w].pc \in {"leaving", "done"}}

\* C15: for every connection at most one disconnect call removes its registry
\* entries and broadcasts user_left; user_left is written only to connections
\* that are registered, never to the departing one; the disconnect of a
\* connection without user_id broadcasts nothing
C15_ClosedExactlyOnce ==
  /\ \A ws \in Sockets : Cardinality(Closers(ws)) <= 1
  /\ lastWrite.kind = "user_left"
       => /\ lastWrite.to \in Values(active_connections)
          /\ lastWrite.to # ep[lastWrite.by].dclient
  /\ \A w \in Sockets : ep[w].pc = "leaving" => client[ep[w].dclient].user_id # None

\* The ids listed anywhere in an index
Indexed(d) == UNION {d[k] : k \in DOMAIN d}

\* C19: a websocket that disconnect has closed is not a value of
\* active_connections, and the id of its client is in no index
C19_UnregisterBeforeClose ==
  \A ws \in Sockets :
    closed[ws] = WS_1000_NORMAL_CLOSURE
    => /\ ws \notin Values(active_connections)
       /\ Get(active_connections, client[ws].client_id) = 0
            => client[ws].client_id \notin Indexed(user_connections)
                                            \cup Indexed(scan_connections)
                                            \cup Indexed(group_connections)

\* C20: every step that changes active_connections, user_connections,
\* scan_connections, group_connections or the groups of a client makes the
\* change while holding the manager's lock
C20_MutationsUnderLock ==
  [][(registry' # registry \/ \E w \in Sockets : client'[w].groups # client[w].groups)
     => lockHeld']_vars

\* C17: analyze_network_traffic never raises; what it returns has a
\* threat_level and a risk_score; when getting the model, the prediction, the
\* persistence or the event publication failed it returns the error result
C17_AnalyzeNeverRaises ==
  \A a \in Callers :
    analysis[a].op = "analyze" =>
      /\ analysis[a].pc # "raised"
      /\ analysis[a].pc = "returned" =>
           /\ analysis[a].result.threat_level # None
           /\ analysis[a].result.risk_score \in Scores
           /\ analysis[a].failed # None =>
                /\ analysis[a].result.error
                /\ analysis[a].result.threat_level = "unknown"
                /\ analysis[a].result.risk_score = 0

\* The second analysis of a caller was predicted and committed, its event
\* publication failed, and it returned the error result
C17_Witness ==
  \E a \in Callers :
    /\ analysis[a].op = "analyze"
    /\ analysis[a].pc = "returned"
    /\ analysis[a].failed = "publish"
    /\ analysis[a].result = ErrorResult
    /\ analysis[a].n = 2

\* C18: when the loading of a model failed during initialize, initialize
\* raises and the analyzer is not marked initialized; an initialized analyzer
\* has every registered model
C18_InitializeFailsOnLoadError ==
  /\ \A a \in Callers :
       (analysis[a].op = "initialize" /\ analysis[a].skipped # {})
       => (analysis[a].pc = "raised" /\ ~initialized)
  /\ initialized => factory_models = MODEL_REGISTRY

\* The transport writes in progress: each task suspended in
\* `await self.websocket.send_json(data)`, with the websocket it writes to
\* (the connected notification of connect, the current send of a broadcast
\* issued by connect or disconnect, the current send of a producer's call)
WritesInProgress ==
  {[to |-> w, by |-> w] : w \in {x \in Sockets : ep[x].pc = "connected"}}
  \cup {[to |-> ep[w].call.results[Len(ep[w].call.results)].ws, by |-> w] :
          w \in {x \in Sockets : ep[x].pc \in {"joining", "leaving"}}}
  \cup {[to |-> prod[p].call.results[Len(prod[p].call.results)].ws, by |-> 0] :
          p \in {x \in Producers : prod[x].pc = "run"}}

\* C21: at no time are two send_json writes to the same websocket in progress
C21_WritesSerialized ==
  \A a, b \in WritesInProgress : a.to = b.to => a.by = b.by

\* The ids a call resolved
Resolved(c) == {c.ids[j] : j \in 1..Len(c.ids)}

\* The index a call of kind op reads, for each of its possible targets
IndexSets(op) ==
  IF op = "user" THEN {IndexGet(user_connections, u) : u \in Users}
  ELSE IF op = "scan" THEN {IndexGet(scan_connections, sc) : sc \in Scans}
  ELSE {IndexGet(group_connections, g) : g \in Groups}

C23_ConnectedFirst ==
  /\ lastWrite.kind = "connected" =>
       LET c == client[lastWrite.to] IN
         /\ lastWrite.to = lastWrite.by
         /\ Get(active_connections, c.client_id) = lastWrite.to
         /\ c.user_id # None => c.client_id \in IndexGet(user_connections, c.user_id)
         /\ c.scan_id # None => c.client_id \in IndexGet(scan_connections, c.scan_id)
         /\ \A g \in c.groups : c.client_id \in IndexGet(group_connections, g)
  /\ (lastWrite.to # 0 /\ lastWrite.kind # "connected") =>
       /\ ep[lastWrite.to].pc # "new"
       /\ client[lastWrite.to] # NoClient

\* A producer's notification is written to a connection whose connect is
\* still suspended in the send of the connected notification
C23_Witness ==
  /\ lastWrite.kind = "system_alert"
  /\ lastWrite.to # 0
  /\ ep[lastWrite.to].pc = "connected"

\* C24: once the endpoint task of a connection has ended, and no other task
\* serves a connection of the same client_id, the client_id is not a key of
\* active_connections and is in no user, scan or group index set
C24_NoRegistryLeak ==
  \A w \in Sockets :
    (/\ ep[w].pc = "done"
     /\ \A x \in Sockets : ep[x].client_id = ep[w].client_id => ep[x].pc = "done")
    => /\ ~Registered(ep[w].client_id)
       /\ ep[w].client_id \notin Indexed(user_connections)
                                 \cup Indexed(scan_connections)
                                 \cup Indexed(group_connections)

\* C25: a step of a connection attempt whose token failed verification
\* changes no registry map and closes no websocket but its own
C25_AuthFailureLeavesRegistry ==
  [][\A w \in Sockets :
       (ep[w].token = BadToken /\ ep'[w].pc # ep[w].pc)
       => /\ UNCHANGED registry
          /\ \A x \in Sockets \ {w} : closed'[x] = closed[x]]_vars

\* C28: an analysis whose ScanResult was committed returns the prediction of
\* the model, not the error result, also when publishing the scan_complete
\* event raised
C28_PublishFailureIsolated ==
  \A a \in Callers :
    (/\ analysis[a].op = "analyze"
     /\ analysis[a].pc = "returned"
     /\ analysis[a].failed \notin {"initialize", "get_model", "predict", "persist"})
    => /\ ~analysis[a].result.error
       /\ analysis[a].result.threat_level \in {"low", "medium", "high", "critical"}

\* C30: no key of user_connections, scan_connections or group_connections
\* maps to an empty set
C30_NoEmptyIndexSet ==
  /\ \A k \in DOMAIN user_connections : user_connections[k] # {}
  /\ \A k \in DOMAIN scan_connections : scan_connections[k] # {}
  /\ \A k \in DOMAIN group_connections : group_connections[k] # {}

\* A registered connection, the only member of its groups, has unsubscribed
\* from them and the keys are gone; the indexes of its user and scan remain
C30_Witness ==
  \E w \in Sockets :
    /\ lastFrame.on = w
    /\ lastFrame.type = "unsubscribe"
    /\ Get(active_connections, ep[w].client_id) = w
    /\ client[w].groups = {}
    /\ DOMAIN group_connections = {}
    /\ DOMAIN user_connections # {}
    /\ DOMAIN scan_connections # {}

\* ----------------------------------- actions of the channel-based manager
\* Something other than the broadcast call touched client_id (history)
ChannelTouch(c, client_id) == [c EXCEPT !.stable = @ \ {client_id}]

\* WebSocketManager.connect, after websocket.accept()
ChannelConnect(client_id) ==
  /\ channel_connections' = channel_connections \cup {client_id}
  /\ channel_call' = ChannelTouch(channel_call, client_id)
  /\ UNCHANGED <<fanout, engine, feed, channels>>

\* WebSocketManager.disconnect called by the connection's own task
ChannelDisconnect(client_id) ==
  /\ LET d == channel_disconnect(channel_connections, channels, client_id)
     IN /\ channel_connections' = d.connections
        /\ channels' = d.channels
  /\ channel_call' = ChannelTouch(channel_call, client_id)
  /\ UNCHANGED <<fanout, engine, feed>>

ChannelSubscribe(client_id, channel) ==
  /\ channels' = channel_subscribe(channels, client_id, channel)
  /\ UNCHANGED <<fanout, engine, feed, channel_connections, channel_call>>

ChannelUnsubscribe(client_id, channel) ==
  /\ channels' = channel_unsubscribe(channels, client_id, channel)
  /\ channel_call' = IF channel = channel_call.channel
                     THEN ChannelTouch(channel_call, client_id) ELSE channel_call
  /\ UNCHANGED <<fanout, engine, feed, channel_connections>>

\* WebSocketManager.broadcast up to its first awaited send_json
ChannelBroadcast(channel) ==
  /\ channel_call.pc \in {"idle", "returned"}
  /\ channel_call' =
       IF channel \notin DOMAIN channels
       THEN [NoChannelCall EXCEPT !.pc = "returned", !.channel = channel]
       ELSE ChannelWalk([NoChannelCall EXCEPT
                           !.channel = channel, !.snap = channels[channel],
                           !.stable = ListItems(channels[channel]) \cap channel_connections],
                        channel_connections, channels)
  /\ UNCHANGED <<fanout, engine, feed, channel_connections, channels>>

\* The awaited send_json returns or raises; send_message's `except Exception`
\* disconnects the client; then the loop goes on to the next awaited send_json
ChannelBroadcastStep(ok) ==
  /\ channel_call.pc = "sending"
  /\ LET d == IF ok THEN [connections |-> channel_connections, channels |-> channels]
              ELSE channel_disconnect(channel_connections, channels, channel_call.cur)
     IN /\ channel_connections' = d.connections
        /\ channels' = d.channels
        /\ channel_call' = ChannelWalk(channel_call, d.connections, d.channels)
  /\ UNCHANGED <<fanout, engine, feed>>

ChannelNext ==
  \/ \E k \in ChannelClients : ChannelConnect(k)
  \/ \E k \in ChannelClients : ChannelDisconnect(k)
  \/ \E k \in ChannelClients, ch \in ChannelNames : ChannelSubscribe(k, ch)
  \/ \E k \in ChannelClients, ch \in ChannelNames : ChannelUnsubscribe(k, ch)
  \/ \E ch \in ChannelNames : ChannelBroadcast(ch)
  \/ \E ok \in BOOLEAN : ChannelBroadcastStep(ok)

\* The channel-based manager, its clients and its broadcast call
SpecChannels == Init /\ [][ChannelNext]_vars

\* C26: when broadcast(channel, message) returns, it has attempted a send to
\* every client that was subscribed to the channel and connected when the call
\* started and that nothing else has disconnected or unsubscribed since; and a
\* step of the call removes no connection and no subscription but those of the
\* client whose send it awaited.
C26_BroadcastSkipsNobody ==
  /\ [](channel_call.pc = "returned" => channel_call.stable \subseteq channel_call.attempted)
  /\ [][(/\ channel_call.pc = "sending"
          /\ (channel_call'.i # channel_call.i \/ channel_call'.pc = "returned"))
        => /\ channel_connections \ {channel_call.cur} \subseteq channel_connections'
           /\ \A ch \in DOMAIN channels :
                ListItems(channels[ch]) \ {channel_call.cur} \subseteq ListItems(channels'[ch])]_vars

\* --------------------------------------------- actions of the threat feed
\* websocket_threat_feed up to manager.connect's websocket.accept():
\* get_current_user_from_token gives no user or raises HTTPException for a bad
\* token, and the endpoint closes the websocket with 1008 and returns
FeedAuth(w, token) ==
  /\ feed_ep[w].pc = "new"
  /\ feed_ep' = [feed_ep EXCEPT ![w] =
       IF token = BadToken THEN [pc |-> "rejected", user |-> None]
       ELSE [pc |-> "accepting", user |-> token]]
  /\ UNCHANGED <<fanout, engine, pubsub, feed_connections, feed_call>>

\* websocket.accept() returns and ConnectionManager.connect registers the
\* websocket under its user, or accept raises out of the endpoint
FeedJoined(w, ok) ==
  /\ feed_ep[w].pc = "accepting"
  /\ feed_ep' = [feed_ep EXCEPT ![w].pc = IF ok THEN "loop" ELSE "failed"]
  /\ feed_connections' =
       IF ok THEN feed_set(feed_connections, feed_ep[w].user, w) ELSE feed_connections
  /\ UNCHANGED <<fanout, engine, pubsub, feed_call>>

\* receive_text raises WebSocketDisconnect or another exception:
\* manager.disconnect(user_id), and the endpoint returns
FeedEnds(w) ==
  /\ feed_ep[w].pc = "loop"
  /\ feed_ep' = [feed_ep EXCEPT ![w].pc = "done"]
  /\ feed_connections' = feed_disconnect(feed_connections, feed_ep[w].user)
  /\ UNCHANGED <<fanout, engine, pubsub, feed_call>>

\* ConnectionManager.broadcast (called by threat_event_handler) up to its
\* first awaited send_json
FeedBroadcast ==
  /\ feed_call.pc \in {"idle", "returned", "raised"}
  /\ feed_call' = FeedWalk([NoFeedCall EXCEPT !.it = feed_iter(feed_connections),
                                              !.snap = FeedValues(feed_connections)],
                           feed_connections)
  /\ UNCHANGED <<fanout, engine, pubsub, feed_connections, feed_ep>>

\* The awaited send_json returns, and the loop asks its iterator for the next
\* connection; or it raises, and the exception leaves broadcast
FeedBroadcastStep(ok) ==
  /\ feed_call.pc = "sending"
  /\ feed_call' = IF ok THEN FeedWalk(feed_call, feed_connections)
                  ELSE [feed_call EXCEPT !.pc = "raised", !.cur = 0, !.error = "send"]
  /\ UNCHANGED <<fanout, engine, pubsub, feed_connections, feed_ep>>

FeedNext ==
  \/ \E w \in FeedSockets, token \in FeedTokens : FeedAuth(w, token)
  \/ \E w \in FeedSockets, ok \in BOOLEAN : FeedJoined(w, ok)
  \/ \E w \in FeedSockets : FeedEnds(w)
  \/ FeedBroadcast
  \/ \E ok \in BOOLEAN : FeedBroadcastStep(ok)

\* The threat feed: its endpoint tasks and its broadcast call
SpecFeed == Init /\ [][FeedNext]_vars

\* C27: when a broadcast of the threat feed has ended, by returning or by an
\* exception, it has attempted a send to every websocket that was registered
\* when it started and is registered still.
C27_FeedBroadcastCompletes ==
  feed_call.pc \in {"returned", "raised"}
  => (feed_call.snap \cap FeedValues(feed_connections)) \subseteq feed_call.attempted

\* C29: the websocket of a feed endpoint that is in its receive loop is a value
\* of active_connections.
C29_OpenFeedRegistered ==
  \A w \in FeedSockets : feed_ep[w].pc = "loop" => w \in FeedValues(feed_connections)
====
